---- MODULE Spec2Model ----
(***************************************************************************)
(* A model of src/main.py: the sample client that calls the gateway's      *)
(* OpenAI-compatible chat-completion endpoint, once synchronously (chat)   *)
(* and once with a streamed response (chat_streaming), passing the API key *)
(* per request in the X-LlamaStack-Provider-Data header.                   *)
(*                                                                         *)
(* A text (a Python str) is a sequence of characters; a character is a     *)
(* one-character string.  The character U+00E9 is written "U+00E9" so the  *)
(* module stays ASCII; it stands for a single non-ASCII character.         *)
(***************************************************************************)
EXTENDS Integers, Sequences, FiniteSets, TLC

----------------------------------------------------------------------------
(* Bounds of the model. *)

\* the longest streamed response body, in lines
MaxLines == 3
\* the longest credential handed to provider_data_header on its own
MaxCredLen == 3

----------------------------------------------------------------------------
(* Python str operations used by main.py. *)

\* the characters str.strip() removes
PyWhitespace == {" ", "\t", "\n", "\r", "\f"}

\* str.startswith(prefix)
StartsWith(s, prefix) ==
    /\ Len(prefix) <= Len(s)
    /\ SubSeq(s, 1, Len(prefix)) = prefix

\* str.removeprefix(prefix)
RemovePrefix(s, prefix) ==
    IF StartsWith(s, prefix) THEN SubSeq(s, Len(prefix) + 1, Len(s)) ELSE s

RECURSIVE LStrip(_)
LStrip(s) ==
    IF s # <<>> /\ Head(s) \in PyWhitespace THEN LStrip(Tail(s)) ELSE s

RECURSIVE RStrip(_)
RStrip(s) ==
    IF s # <<>> /\ s[Len(s)] \in PyWhitespace
    THEN RStrip(SubSeq(s, 1, Len(s) - 1))
    ELSE s

\* str.strip()
Strip(s) == RStrip(LStrip(s))

----------------------------------------------------------------------------
(* JSON values as Python holds them.  Every value carries its type in t,   *)
(* and each type keeps its payload in a field of its own.                  *)

PyNone == [t |-> "NoneType"]
PyBool(b) == [t |-> "bool", b |-> b]
PyInt(digits) == [t |-> "int", digits |-> digits]
PyStr(s) == [t |-> "str", s |-> s]
PyList(items) == [t |-> "list", items |-> items]
\* a dict keeps its keys in insertion order; keys are texts
PyDict(keys, vals) == [t |-> "dict", keys |-> keys, vals |-> vals]

\* dict literal / dict item assignment: a repeated key keeps its first
\* position and takes the last value
DictSet(d, k, v) ==
    IF \E i \in 1..Len(d.keys) : d.keys[i] = k
    THEN LET i == CHOOSE j \in 1..Len(d.keys) : d.keys[j] = k
         IN  PyDict(d.keys, [d.vals EXCEPT ![i] = v])
    ELSE PyDict(Append(d.keys, k), Append(d.vals, v))

DictHas(d, k) == \E i \in 1..Len(d.keys) : d.keys[i] = k

DictGet(d, k) == d.vals[CHOOSE i \in 1..Len(d.keys) : d.keys[i] = k]

\* bool(v): the truth value the `if` statements test
Truthy(v) ==
    CASE v.t = "NoneType" -> FALSE
      [] v.t = "bool" -> v.b
      [] v.t = "int" -> v.digits # <<"0">>
      [] v.t = "str" -> v.s # <<>>
      [] v.t = "list" -> v.items # <<>>
      [] v.t = "dict" -> v.keys # <<>>

\* str(v), what print writes for v.  Lists and dicts are never printed by
\* the responses of this model, so their repr is left out.
ToText(v) ==
    CASE v.t = "NoneType" -> <<"N","o","n","e">>
      [] v.t = "bool" -> IF v.b THEN <<"T","r","u","e">> ELSE <<"F","a","l","s","e">>
      [] v.t = "int" -> v.digits
      [] v.t = "str" -> v.s

----------------------------------------------------------------------------
(* The result of an expression that may raise. *)

Raise(exc) == [ok |-> FALSE, exc |-> exc]
Return(v) == [ok |-> TRUE, v |-> v]

\* v[key] for a str key, as in chunk["choices"]
SubscriptKey(v, key) ==
    CASE v.t = "dict" ->
            IF DictHas(v, key) THEN Return(DictGet(v, key)) ELSE Raise("KeyError")
      [] OTHER -> Raise("TypeError")

\* v[0]
SubscriptZero(v) ==
    CASE v.t = "list" ->
            IF v.items # <<>> THEN Return(v.items[1]) ELSE Raise("IndexError")
      [] v.t = "str" ->
            IF v.s # <<>> THEN Return(PyStr(<<v.s[1]>>)) ELSE Raise("IndexError")
      [] v.t = "dict" -> Raise("KeyError")
      [] OTHER -> Raise("TypeError")

\* v[key] where the code has v.get(key)
MethodGet_Subscript(v, key) ==
    CASE v.t = "dict" ->
            IF DictHas(v, key) THEN Return(DictGet(v, key)) ELSE Raise("KeyError")
      [] OTHER -> Raise("TypeError")

\* v.get(key)
MethodGet(v, key) ==
    CASE v.t = "dict" ->
            Return(IF DictHas(v, key) THEN DictGet(v, key) ELSE PyNone)
      [] OTHER -> Raise("AttributeError")

----------------------------------------------------------------------------
(* json.loads on the JSON this client meets: objects, arrays, strings with *)
(* their escapes, true, false, null and non-negative integers.  A parse    *)
(* step returns the value and the index after it, or fails.                *)

JsonWhitespace == {" ", "\t", "\n", "\r"}
Digits == {"0", "1", "2", "3", "4", "5", "6", "7", "8", "9"}

\* the characters a JSON string may not hold unescaped (those below U+0020)
ControlChars == {"\t", "\n", "\r", "\f"}

\* the two-character escapes: the character after the backslash, and the
\* character the pair stands for
SimpleEscapes ==
    [c \in {"\"", "\\", "/", "n", "r", "t", "f"} |->
        CASE c = "n" -> "\n"
          [] c = "r" -> "\r"
          [] c = "t" -> "\t"
          [] c = "f" -> "\f"
          [] OTHER -> c]

\* the \uXXXX escapes of the non-ASCII characters of the model
UnicodeEscapes == [h \in {<<"0","0","e","9">>} |-> "U+00E9"]

ParseFail == [ok |-> FALSE]
Parsed(v, i) == [ok |-> TRUE, v |-> v, i |-> i]

RECURSIVE SkipWs(_, _)
SkipWs(s, i) ==
    IF i <= Len(s) /\ s[i] \in JsonWhitespace THEN SkipWs(s, i + 1) ELSE i

LiteralAt(s, i, lit) ==
    /\ i + Len(lit) - 1 <= Len(s)
    /\ SubSeq(s, i, i + Len(lit) - 1) = lit

RECURSIVE ScanString(_, _, _)
\* the text of a string whose opening quote is just before i
ScanString(s, i, acc) ==
    IF i > Len(s) THEN ParseFail
    ELSE IF s[i] = "\"" THEN Parsed(acc, i + 1)
    ELSE IF s[i] = "\\" THEN
        IF i + 1 > Len(s) THEN ParseFail
        ELSE IF s[i + 1] \in DOMAIN SimpleEscapes
        THEN ScanString(s, i + 2, Append(acc, SimpleEscapes[s[i + 1]]))
        ELSE IF /\ s[i + 1] = "u"
                /\ i + 5 <= Len(s)
                /\ SubSeq(s, i + 2, i + 5) \in DOMAIN UnicodeEscapes
        THEN ScanString(s, i + 6, Append(acc, UnicodeEscapes[SubSeq(s, i + 2, i + 5)]))
        ELSE ParseFail
    ELSE IF s[i] \in ControlChars THEN ParseFail
    ELSE ScanString(s, i + 1, Append(acc, s[i]))

RECURSIVE ScanDigits(_, _)
\* the index after the run of digits that starts at i
ScanDigits(s, i) ==
    IF i <= Len(s) /\ s[i] \in Digits THEN ScanDigits(s, i + 1) ELSE i

RECURSIVE ParseValue(_, _)
RECURSIVE ParseElements(_, _, _)
RECURSIVE ParseMembers(_, _, _)

\* the value that starts at i
ParseValue(s, i) ==
    IF i > Len(s) THEN ParseFail
    ELSE IF s[i] = "\"" THEN
        LET r == ScanString(s, i + 1, <<>>)
        IN  IF r.ok THEN Parsed(PyStr(r.v), r.i) ELSE ParseFail
    ELSE IF s[i] = "{" THEN
        LET j == SkipWs(s, i + 1)
        IN  IF j <= Len(s) /\ s[j] = "}"
            THEN Parsed(PyDict(<<>>, <<>>), j + 1)
            ELSE ParseMembers(s, j, PyDict(<<>>, <<>>))
    ELSE IF s[i] = "[" THEN
        LET j == SkipWs(s, i + 1)
        IN  IF j <= Len(s) /\ s[j] = "]"
            THEN Parsed(PyList(<<>>), j + 1)
            ELSE ParseElements(s, j, <<>>)
    ELSE IF LiteralAt(s, i, <<"n","u","l","l">>) THEN Parsed(PyNone, i + 4)
    ELSE IF LiteralAt(s, i, <<"t","r","u","e">>) THEN Parsed(PyBool(TRUE), i + 4)
    ELSE IF LiteralAt(s, i, <<"f","a","l","s","e">>) THEN Parsed(PyBool(FALSE), i + 5)
    ELSE IF s[i] = "0" THEN Parsed(PyInt(<<"0">>), i + 1)
    ELSE IF s[i] \in Digits THEN
        LET j == ScanDigits(s, i)
        IN  Parsed(PyInt(SubSeq(s, i, j - 1)), j)
    ELSE ParseFail

\* the rest of an array whose next element starts at i
ParseElements(s, i, items) ==
    LET v == ParseValue(s, i)
    IN  IF ~v.ok THEN ParseFail
        ELSE LET e == SkipWs(s, v.i)
                 more == Append(items, v.v)
             IN  IF e > Len(s) THEN ParseFail
                 ELSE IF s[e] = "]" THEN Parsed(PyList(more), e + 1)
                 ELSE IF s[e] = "," THEN ParseElements(s, SkipWs(s, e + 1), more)
                 ELSE ParseFail

\* the rest of an object whose next key starts at i
ParseMembers(s, i, d) ==
    IF i > Len(s) \/ s[i] # "\"" THEN ParseFail
    ELSE LET k == ScanString(s, i + 1, <<>>)
         IN  IF ~k.ok THEN ParseFail
             ELSE LET c == SkipWs(s, k.i)
                  IN  IF c > Len(s) \/ s[c] # ":" THEN ParseFail
                      ELSE LET v == ParseValue(s, SkipWs(s, c + 1))
                           IN  IF ~v.ok THEN ParseFail
                               ELSE LET e == SkipWs(s, v.i)
                                        more == DictSet(d, k.v, v.v)
                                    IN  IF e > Len(s) THEN ParseFail
                                        ELSE IF s[e] = "}" THEN Parsed(more, e + 1)
                                        ELSE IF s[e] = ","
                                        THEN ParseMembers(s, SkipWs(s, e + 1), more)
                                        ELSE ParseFail

\* json.loads(s): the value, or JSONDecodeError when s is not one JSON
\* document
json_loads(s) ==
    LET r == ParseValue(s, SkipWs(s, 1))
    IN  IF r.ok /\ SkipWs(s, r.i) = Len(s) + 1
        THEN Return(r.v)
        ELSE Raise("JSONDecodeError")

----------------------------------------------------------------------------
(* json.dumps with its defaults (ensure_ascii, ", " and ": "), on strings  *)
(* and on dicts of strings.                                                *)

\* the string pasted between quotes, nothing escaped
EscapeChar_Verbatim(c) == <<c>>

\* one character of a string, as json.dumps writes it
EscapeChar(c) ==
    CASE c = "\"" -> <<"\\", "\"">>
      [] c = "\\" -> <<"\\", "\\">>
      [] c = "\n" -> <<"\\", "n">>
      [] c = "\r" -> <<"\\", "r">>
      [] c = "\t" -> <<"\\", "t">>
      [] c = "\f" -> <<"\\", "f">>
      [] c = "U+00E9" -> <<"\\", "u", "0", "0", "e", "9">>
      [] OTHER -> <<c>>

RECURSIVE EscapeText(_)
EscapeText(s) ==
    IF s = <<>> THEN <<>> ELSE EscapeChar(Head(s)) \o EscapeText(Tail(s))

EncodeString(s) == <<"\"">> \o EscapeText(s) \o <<"\"">>

RECURSIVE EncodeMembers(_, _)
\* the members of a dict from the i-th on, separated by ", "
EncodeMembers(d, i) ==
    IF i > Len(d.keys) THEN <<>>
    ELSE (IF i > 1 THEN <<",", " ">> ELSE <<>>)
         \o EncodeString(d.keys[i]) \o <<":", " ">> \o EncodeString(d.vals[i].s)
         \o EncodeMembers(d, i + 1)

\* json.dumps(v)
json_dumps(v) ==
    CASE v.t = "str" -> EncodeString(v.s)
      [] v.t = "dict" -> <<"{">> \o EncodeMembers(v, 1) \o <<"}">>

----------------------------------------------------------------------------
(* The texts main.py names. *)

\* data: 
DataPrefix ==
    <<"d","a","t","a",":"," ">>
\* [DONE]
Sentinel ==
    <<"[","D","O","N","E","]">>
\* === Regular ===\n
RegularBanner ==
    <<"=","=","="," ","R","e","g","u","l","a","r"," ","=","=","=","\n">>
\* \n=== Streaming ===\n
StreamingBanner ==
    <<"\n","=","=","="," ","S","t","r","e","a","m","i","n","g"," ","=","=","=","\n">>
\* \n
Newline ==
    <<"\n">>
\* choices
KeyChoices ==
    <<"c","h","o","i","c","e","s">>
\* message
KeyMessage ==
    <<"m","e","s","s","a","g","e">>
\* delta
KeyDelta ==
    <<"d","e","l","t","a">>
\* content
KeyContent ==
    <<"c","o","n","t","e","n","t">>
\* passthrough_api_key
KeyPassthroughApiKey ==
    <<"p","a","s","s","t","h","r","o","u","g","h","_","a","p","i","_","k","e","y">>
\* passthrough_url
KeyPassthroughUrl ==
    <<"p","a","s","s","t","h","r","o","u","g","h","_","u","r","l">>
\* https://api.openai.com
PassthroughUrl ==
    <<"h","t","t","p","s",":","/","/","a","p","i",".","o","p","e","n","a","i",".","c","o","m">>
\* application/json
ApplicationJson ==
    <<"a","p","p","l","i","c","a","t","i","o","n","/","j","s","o","n">>

\* the name of the custom header
ProviderDataHeader == "X-LlamaStack-Provider-Data"

\* the timeout of both requests
Timeout == 30

----------------------------------------------------------------------------
(* What the gateway may answer.  The lines of a streamed body are the      *)
(* texts response.iter_lines() yields, without their line ends.            *)

\* data: {"choices":[{"delta":{"content":"A"}}]}
LineA ==
    <<"d","a","t","a",":"," ","{","\"","c","h","o","i","c","e","s","\"",":","[","{","\"","d",
      "e","l","t","a","\"",":","{","\"","c","o","n","t","e","n","t","\"",":","\"","A","\"","}",
      "}","]","}">>
\* data: {"choices": [{"index": 0, "delta": {"content": "B"}}]}
LineB ==
    <<"d","a","t","a",":"," ","{","\"","c","h","o","i","c","e","s","\"",":"," ","[","{","\"",
      "i","n","d","e","x","\"",":"," ","0",","," ","\"","d","e","l","t","a","\"",":"," ","{",
      "\"","c","o","n","t","e","n","t","\"",":"," ","\"","B","\"","}","}","]","}">>
\* data: {"choices":[{"delta":{"role":"assistant"}}]}
LineRole ==
    <<"d","a","t","a",":"," ","{","\"","c","h","o","i","c","e","s","\"",":","[","{","\"","d",
      "e","l","t","a","\"",":","{","\"","r","o","l","e","\"",":","\"","a","s","s","i","s","t",
      "a","n","t","\"","}","}","]","}">>
\* data: {"choices":[{"delta":{"content":""}}]}
LineEmpty ==
    <<"d","a","t","a",":"," ","{","\"","c","h","o","i","c","e","s","\"",":","[","{","\"","d",
      "e","l","t","a","\"",":","{","\"","c","o","n","t","e","n","t","\"",":","\"","\"","}","}",
      "]","}">>
\* data: {"choices":[{"delta":{"content":null}}]}
LineNull ==
    <<"d","a","t","a",":"," ","{","\"","c","h","o","i","c","e","s","\"",":","[","{","\"","d",
      "e","l","t","a","\"",":","{","\"","c","o","n","t","e","n","t","\"",":","n","u","l","l",
      "}","}","]","}">>
\* data: [DONE]
LineDone ==
    <<"d","a","t","a",":"," ","[","D","O","N","E","]">>
\* data:  [DONE]\t
LineDonePadded ==
    <<"d","a","t","a",":"," "," ","[","D","O","N","E","]","\t">>
\* (the empty text)
LineBlank ==
    <<>>
\* : ping
LineComment ==
    <<":"," ","p","i","n","g">>
\* [DONE]
LineBareSentinel ==
    <<"[","D","O","N","E","]">>
\* data:{"choices":[{"delta":{"content":"C"}}]}
LineNoSpace ==
    <<"d","a","t","a",":","{","\"","c","h","o","i","c","e","s","\"",":","[","{","\"","d","e",
      "l","t","a","\"",":","{","\"","c","o","n","t","e","n","t","\"",":","\"","C","\"","}","}",
      "]","}">>
\* data: {"choices":[{"delta":
LineMalformed ==
    <<"d","a","t","a",":"," ","{","\"","c","h","o","i","c","e","s","\"",":","[","{","\"","d",
      "e","l","t","a","\"",":">>
\* data: {"error":"overloaded"}
LineNoChoices ==
    <<"d","a","t","a",":"," ","{","\"","e","r","r","o","r","\"",":","\"","o","v","e","r","l",
      "o","a","d","e","d","\"","}">>
\* data: {"choices":[]}
LineEmptyChoices ==
    <<"d","a","t","a",":"," ","{","\"","c","h","o","i","c","e","s","\"",":","[","]","}">>
\* data: {"choices":[{"index":0}]}
LineNoDelta ==
    <<"d","a","t","a",":"," ","{","\"","c","h","o","i","c","e","s","\"",":","[","{","\"","i",
      "n","d","e","x","\"",":","0","}","]","}">>
\* data: {"choices":[{"delta":null}]}
LineDeltaNull ==
    <<"d","a","t","a",":"," ","{","\"","c","h","o","i","c","e","s","\"",":","[","{","\"","d",
      "e","l","t","a","\"",":","n","u","l","l","}","]","}">>
\* data: {"choices":[{"delta":{"content":true}}]}
LineTrue ==
    <<"d","a","t","a",":"," ","{","\"","c","h","o","i","c","e","s","\"",":","[","{","\"","d",
      "e","l","t","a","\"",":","{","\"","c","o","n","t","e","n","t","\"",":","t","r","u","e",
      "}","}","]","}">>
\* {"choices":[{"message":{"content":"hi"}}]}
BodyHi ==
    <<"{","\"","c","h","o","i","c","e","s","\"",":","[","{","\"","m","e","s","s","a","g","e",
      "\"",":","{","\"","c","o","n","t","e","n","t","\"",":","\"","h","i","\"","}","}","]","}">>
\* <html>
BodyNotJson ==
    <<"<","h","t","m","l",">">>
\* {"error":"overloaded"}
BodyNoChoices ==
    <<"{","\"","e","r","r","o","r","\"",":","\"","o","v","e","r","l","o","a","d","e","d","\"",
      "}">>

\* the lines of streamed bodies
Lines ==
    { LineA, LineB, LineRole, LineEmpty, LineNull, LineDone, LineDonePadded,
      LineBlank, LineComment, LineBareSentinel, LineNoSpace, LineMalformed,
      LineNoChoices, LineEmptyChoices, LineNoDelta, LineDeltaNull, LineTrue }

\* the status codes of responses
StatusCodes == {200, 401, 503}

\* the bodies of answers to the synchronous request
Bodies == {BodyHi, BodyNotJson, BodyNoChoices}

\* the streamed bodies of at most n lines
StreamBodies(n) == UNION {[1..k -> Lines] : k \in 0..n}

\* the values of OPENAI_API_KEY: unset, empty, or a key
\* process environments, each a set of variables
Environments ==
    {{}} \cup
    {{[name |-> "OPENAI_API_KEY", value |-> key]} : key \in {<<>>, <<"s","k","\"">>}}

----------------------------------------------------------------------------
(* The state of one run of the program. *)

VARIABLES
    pc,               \* the statement main.py executes next
    environ,          \* os.environ
    api_key,          \* main's api_key
    stdout,           \* the text written to standard output
    stderr,           \* what the interpreter wrote to standard error on exit
    exception,        \* the exception that ended the run, or "none"
    exit_code,        \* the process exit status once pc = "exited"
    requests,         \* the requests sent to the gateway, in order
    chat_response,    \* the response httpx.post returned
    data,             \* chat's data
    stream_response,  \* the response httpx.stream opened
    connection,       \* the streamed response: "none", "open" or "closed"
    lines_read,       \* how many lines response.iter_lines() has yielded
    credential,       \* the argument of provider_data_header called on its own
    built             \* the mappings provider_data_header returned for it

vars ==
    <<pc, environ, api_key, stdout, stderr, exception, exit_code, requests,
      chat_response, data, stream_response, connection, lines_read,
      credential, built>>

NoResponse == [status |-> 0, body |-> <<>>]
NoStream == [status |-> 0, lines |-> <<>>]

----------------------------------------------------------------------------
(* provider_data_header, and the requests built on it. *)

provider_data_header(key) ==
    [h \in {ProviderDataHeader} |->
        json_dumps(PyDict(<<KeyPassthroughApiKey, KeyPassthroughUrl>>,
                          <<PyStr(key), PyStr(PassthroughUrl)>>))]

\* {"Content-Type": "application/json", **provider_data_header(api_key)}
Headers(key) ==
    provider_data_header(key) @@ [h \in {"Content-Type"} |-> ApplicationJson]

Request(call, key, streamed) ==
    [call |-> call, method |-> "POST", path |-> "/v1/chat/completions",
     headers |-> Headers(key), model |-> "openai/gpt-4o", stream |-> streamed,
     timeout |-> Timeout]

\* os.environ.get(name, "sk"): a default key when the variable is unset
EnvironGet_Default(name) ==
    IF \E e \in environ : e.name = name
    THEN PyStr((CHOOSE e \in environ : e.name = name).value)
    ELSE PyStr(<<"s","k">>)

\* os.environ.get(name)
EnvironGet(name) ==
    IF \E e \in environ : e.name = name
    THEN PyStr((CHOOSE e \in environ : e.name = name).value)
    ELSE PyNone

\* only 5xx taken for failures
IsSuccess_Below500(status) == status < 500

\* response.is_success, which raise_for_status tests
IsSuccess(status) == status \in 200..299

\* an exception nothing catches: the interpreter prints the traceback and
\* exits with status 1
Uncaught(exc) ==
    /\ pc' = "exited"
    /\ exception' = exc
    /\ stderr' = "Traceback (most recent call last)"
    /\ exit_code' = 1

----------------------------------------------------------------------------
(* main *)

\* api_key = os.environ.get("OPENAI_API_KEY")
MainGetKey ==
    /\ pc = "main"
    /\ api_key' = EnvironGet("OPENAI_API_KEY")
    /\ pc' = "main_check"
    /\ UNCHANGED <<environ, stdout, stderr, exception, exit_code, requests,
                   chat_response, data, stream_response, connection,
                   lines_read, credential, built>>

\* if not api_key: raise SystemExit(...)
MainExitNoKey ==
    /\ pc = "main_check"
    /\ ~Truthy(api_key)
    /\ pc' = "exited"
    /\ exception' = "SystemExit"
    /\ stderr' = "Set OPENAI_API_KEY environment variable"
    /\ exit_code' = 1
    /\ UNCHANGED <<environ, api_key, stdout, requests, chat_response, data,
                   stream_response, connection, lines_read, credential, built>>

\* chat(api_key)
MainCallChat ==
    /\ pc = "main_check"
    /\ Truthy(api_key)
    /\ pc' = "chat_post"
    /\ UNCHANGED <<environ, api_key, stdout, stderr, exception, exit_code,
                   requests, chat_response, data, stream_response, connection,
                   lines_read, credential, built>>

----------------------------------------------------------------------------
(* chat *)

\* httpx.post(...) returns a response
ChatPost ==
    /\ pc = "chat_post"
    /\ requests' = Append(requests, Request("chat", api_key.s, FALSE))
    /\ \E status \in StatusCodes, body \in Bodies :
            chat_response' = [status |-> status, body |-> body]
    /\ pc' = "chat_raise_for_status"
    /\ UNCHANGED <<environ, api_key, stdout, stderr, exception, exit_code, data,
                   stream_response, connection, lines_read, credential, built>>

\* httpx.post(...) raises: no answer within the timeout
ChatPostTimeout ==
    /\ pc = "chat_post"
    /\ requests' = Append(requests, Request("chat", api_key.s, FALSE))
    /\ Uncaught("TimeoutException")
    /\ UNCHANGED <<environ, api_key, stdout, chat_response, data,
                   stream_response, connection, lines_read, credential, built>>

\* chat without its raise_for_status()
ChatRaiseForStatus_Missing ==
    /\ pc = "chat_raise_for_status"
    /\ pc' = "chat_json"
    /\ UNCHANGED <<environ, api_key, stdout, stderr, exception, exit_code,
                   requests, chat_response, data, stream_response, connection,
                   lines_read, credential, built>>

\* response.raise_for_status()
ChatRaiseForStatus ==
    /\ pc = "chat_raise_for_status"
    /\ IF IsSuccess(chat_response.status)
       THEN /\ pc' = "chat_json"
            /\ UNCHANGED <<stderr, exception, exit_code>>
       ELSE Uncaught("HTTPStatusError")
    /\ UNCHANGED <<environ, api_key, stdout, requests, chat_response, data,
                   stream_response, connection, lines_read, credential, built>>

\* data = response.json()
ChatJson ==
    /\ pc = "chat_json"
    /\ LET r == json_loads(chat_response.body)
       IN  IF r.ok
           THEN /\ data' = r.v
                /\ pc' = "chat_banner"
                /\ UNCHANGED <<stderr, exception, exit_code>>
           ELSE /\ Uncaught(r.exc)
                /\ UNCHANGED data
    /\ UNCHANGED <<environ, api_key, stdout, requests, chat_response,
                   stream_response, connection, lines_read, credential, built>>

\* print("=== Regular ===")
ChatBanner ==
    /\ pc = "chat_banner"
    /\ stdout' = stdout \o RegularBanner
    /\ pc' = "chat_content"
    /\ UNCHANGED <<environ, api_key, stderr, exception, exit_code, requests,
                   chat_response, data, stream_response, connection,
                   lines_read, credential, built>>

\* data["choices"][0]["message"]["content"]
MessageContent(d) ==
    LET choices == SubscriptKey(d, KeyChoices)
        first == IF choices.ok THEN SubscriptZero(choices.v) ELSE choices
        message == IF first.ok THEN SubscriptKey(first.v, KeyMessage) ELSE first
    IN  IF message.ok THEN SubscriptKey(message.v, KeyContent) ELSE message

\* print(data["choices"][0]["message"]["content"]), and the return to main,
\* which calls chat_streaming(api_key)
ChatContent ==
    /\ pc = "chat_content"
    /\ LET r == MessageContent(data)
       IN  IF r.ok
           THEN /\ stdout' = stdout \o ToText(r.v) \o Newline
                /\ pc' = "stream_banner"
                /\ UNCHANGED <<stderr, exception, exit_code>>
           ELSE /\ Uncaught(r.exc)
                /\ UNCHANGED stdout
    /\ UNCHANGED <<environ, api_key, requests, chat_response, data,
                   stream_response, connection, lines_read, credential, built>>

----------------------------------------------------------------------------
(* chat_streaming *)

\* print("\n=== Streaming ===")
StreamBanner ==
    /\ pc = "stream_banner"
    /\ stdout' = stdout \o StreamingBanner
    /\ pc' = "stream_open"
    /\ UNCHANGED <<environ, api_key, stderr, exception, exit_code, requests,
                   chat_response, data, stream_response, connection,
                   lines_read, credential, built>>

\* with httpx.stream(...) as response: the request is sent and the response
\* is open once its status line and headers have arrived
StreamOpen ==
    /\ pc = "stream_open"
    /\ requests' = Append(requests, Request("chat_streaming", api_key.s, TRUE))
    /\ \E status \in StatusCodes, body \in StreamBodies(MaxLines) :
            stream_response' = [status |-> status, lines |-> body]
    /\ connection' = "open"
    /\ pc' = "stream_raise_for_status"
    /\ UNCHANGED <<environ, api_key, stdout, stderr, exception, exit_code,
                   chat_response, data, lines_read, credential, built>>

\* httpx.stream(...) raises on entry: no answer within the timeout
StreamOpenTimeout ==
    /\ pc = "stream_open"
    /\ requests' = Append(requests, Request("chat_streaming", api_key.s, TRUE))
    /\ Uncaught("TimeoutException")
    /\ UNCHANGED <<environ, api_key, stdout, chat_response, data,
                   stream_response, connection, lines_read, credential, built>>

\* leaving the with block, by its end or by an exception, closes the response
ExitWith == "closed"

\* response.raise_for_status()
StreamRaiseForStatus ==
    /\ pc = "stream_raise_for_status"
    /\ IF IsSuccess(stream_response.status)
       THEN /\ pc' = "stream_iter"
            /\ UNCHANGED <<stderr, exception, exit_code, connection>>
       ELSE /\ connection' = ExitWith
            /\ Uncaught("HTTPStatusError")
    /\ UNCHANGED <<environ, api_key, stdout, requests, chat_response, data,
                   stream_response, lines_read, credential, built>>

\* the line the next iteration of `for line in response.iter_lines()` gets
NextLine == stream_response.lines[lines_read + 1]

\* line.startswith("data: ")
IsDataLine(line) == StartsWith(line, DataPrefix)

\* payload = line.removeprefix("data: ")
Payload(line) == RemovePrefix(line, DataPrefix)

\* payload.strip() == "[DONE]"
IsDone(payload) == Strip(payload) = Sentinel

\* chunk["choices"][0]["delta"].get("content")
DeltaContent(chunk) ==
    LET choices == SubscriptKey(chunk, KeyChoices)
        first == IF choices.ok THEN SubscriptZero(choices.v) ELSE choices
        delta == IF first.ok THEN SubscriptKey(first.v, KeyDelta) ELSE first
    IN  IF delta.ok THEN MethodGet(delta.v, KeyContent) ELSE delta

\* chunk = json.loads(payload); content = chunk[...].get("content")
ChunkContent(payload) ==
    LET chunk == json_loads(payload)
    IN  IF chunk.ok THEN DeltaContent(chunk.v) ELSE chunk

\* print(content, end="", flush=True) without the test of content
PrintContent_Unguarded(out, content) == out \o ToText(content)

\* if content: print(content, end="", flush=True)
PrintContent(out, content) ==
    IF Truthy(content) THEN out \o ToText(content) ELSE out

\* The three tests of the loop body, worked out once for each line a
\* response may hold: the lines that pass startswith("data: "), those of
\* them whose payload is the sentinel, and what decoding each one gives.
DataLines == {line \in Lines : IsDataLine(line)}
DoneLines == {line \in DataLines : IsDone(Payload(line))}
ContentOf == [line \in DataLines |-> ChunkContent(Payload(line))]

\* iter_lines() is exhausted: the loop ends
StreamEnd ==
    /\ pc = "stream_iter"
    /\ lines_read = Len(stream_response.lines)
    /\ pc' = "stream_exit"
    /\ UNCHANGED <<environ, api_key, stdout, stderr, exception, exit_code,
                   requests, chat_response, data, stream_response, connection,
                   lines_read, credential, built>>

\* iter_lines() raises: the transport fails, or no data arrives within the
\* timeout, while the next line is awaited
StreamReadError ==
    /\ pc = "stream_iter"
    /\ connection' = ExitWith
    /\ Uncaught("ReadError")
    /\ UNCHANGED <<environ, api_key, stdout, requests, chat_response, data,
                   stream_response, lines_read, credential, built>>

\* the sentinel tested before the marker: a bare [DONE] line ends the loop
StreamSkip_BareSentinel ==
    /\ pc = "stream_iter"
    /\ lines_read < Len(stream_response.lines)
    /\ NextLine \notin DataLines
    /\ lines_read' = lines_read + 1
    /\ pc' = IF IsDone(NextLine) THEN "stream_exit" ELSE pc
    /\ UNCHANGED <<environ, api_key, stdout, stderr, exception, exit_code,
                   requests, chat_response, data, stream_response, connection,
                   credential, built>>

\* if not line.startswith("data: "): continue
StreamSkip ==
    /\ pc = "stream_iter"
    /\ lines_read < Len(stream_response.lines)
    /\ NextLine \notin DataLines
    /\ lines_read' = lines_read + 1
    /\ UNCHANGED <<pc, environ, api_key, stdout, stderr, exception, exit_code,
                   requests, chat_response, data, stream_response, connection,
                   credential, built>>

\* the sentinel skipped like any other line (continue in place of break)
StreamDone_Continue ==
    /\ pc = "stream_iter"
    /\ lines_read < Len(stream_response.lines)
    /\ NextLine \in DataLines
    /\ NextLine \in DoneLines
    /\ lines_read' = lines_read + 1
    /\ UNCHANGED <<pc, environ, api_key, stdout, stderr, exception, exit_code,
                   requests, chat_response, data, stream_response, connection,
                   credential, built>>

\* if payload.strip() == "[DONE]": break
StreamDone ==
    /\ pc = "stream_iter"
    /\ lines_read < Len(stream_response.lines)
    /\ NextLine \in DataLines
    /\ NextLine \in DoneLines
    /\ lines_read' = lines_read + 1
    /\ pc' = "stream_exit"
    /\ UNCHANGED <<environ, api_key, stdout, stderr, exception, exit_code,
                   requests, chat_response, data, stream_response, connection,
                   credential, built>>

\* a data frame that is not the sentinel and decodes:
\* chunk = json.loads(payload); content = ...; if content: print(...)
StreamChunk ==
    /\ pc = "stream_iter"
    /\ lines_read < Len(stream_response.lines)
    /\ NextLine \in DataLines
    /\ NextLine \notin DoneLines
    /\ ContentOf[NextLine].ok
    /\ lines_read' = lines_read + 1
    /\ stdout' = PrintContent(stdout, ContentOf[NextLine].v)
    /\ UNCHANGED <<pc, environ, api_key, stderr, exception, exit_code, requests,
                   chat_response, data, stream_response, connection,
                   credential, built>>

\* the response closed by hand after the loop, not by a with block: an
\* exception leaves it open
StreamChunkError_Leak ==
    /\ pc = "stream_iter"
    /\ lines_read < Len(stream_response.lines)
    /\ NextLine \in DataLines
    /\ NextLine \notin DoneLines
    /\ ~ContentOf[NextLine].ok
    /\ lines_read' = lines_read + 1
    /\ Uncaught(ContentOf[NextLine].exc)
    /\ UNCHANGED <<environ, api_key, stdout, requests, chat_response, data,
                   stream_response, connection, credential, built>>

\* the decode wrapped in try/except: continue, so a bad frame is skipped
StreamChunkError_Skip ==
    /\ pc = "stream_iter"
    /\ lines_read < Len(stream_response.lines)
    /\ NextLine \in DataLines
    /\ NextLine \notin DoneLines
    /\ ~ContentOf[NextLine].ok
    /\ lines_read' = lines_read + 1
    /\ UNCHANGED <<pc, environ, api_key, stdout, stderr, exception, exit_code,
                   requests, chat_response, data, stream_response, connection,
                   credential, built>>

\* a data frame that is not the sentinel and does not decode: json.loads or
\* one of the subscripts raises, out of the loop and out of the with block
StreamChunkError ==
    /\ pc = "stream_iter"
    /\ lines_read < Len(stream_response.lines)
    /\ NextLine \in DataLines
    /\ NextLine \notin DoneLines
    /\ ~ContentOf[NextLine].ok
    /\ lines_read' = lines_read + 1
    /\ connection' = ExitWith
    /\ Uncaught(ContentOf[NextLine].exc)
    /\ UNCHANGED <<environ, api_key, stdout, requests, chat_response, data,
                   stream_response, credential, built>>

\* the end of the with block
StreamExit ==
    /\ pc = "stream_exit"
    /\ connection' = ExitWith
    /\ pc' = "stream_newline"
    /\ UNCHANGED <<environ, api_key, stdout, stderr, exception, exit_code,
                   requests, chat_response, data, stream_response, lines_read,
                   credential, built>>

\* print(), then the return to main, which returns: exit status 0
StreamNewline ==
    /\ pc = "stream_newline"
    /\ stdout' = stdout \o Newline
    /\ pc' = "exited"
    /\ exit_code' = 0
    /\ UNCHANGED <<environ, api_key, stderr, exception, requests,
                   chat_response, data, stream_response, connection,
                   lines_read, credential, built>>

----------------------------------------------------------------------------
(* The program. *)

Init ==
    /\ pc = "main"
    /\ environ \in Environments
    /\ api_key = PyNone
    /\ stdout = <<>>
    /\ stderr = ""
    /\ exception = "none"
    /\ exit_code = -1
    /\ requests = <<>>
    /\ chat_response = NoResponse
    /\ data = PyNone
    /\ stream_response = NoStream
    /\ connection = "none"
    /\ lines_read = 0
    /\ credential = <<>>
    /\ built = <<>>

Next ==
    \/ MainGetKey
    \/ MainExitNoKey
    \/ MainCallChat
    \/ ChatPost
    \/ ChatPostTimeout
    \/ ChatRaiseForStatus
    \/ ChatJson
    \/ ChatBanner
    \/ ChatContent
    \/ StreamBanner
    \/ StreamOpen
    \/ StreamOpenTimeout
    \/ StreamRaiseForStatus
    \/ StreamEnd
    \/ StreamReadError
    \/ StreamSkip
    \/ StreamDone
    \/ StreamChunk
    \/ StreamChunkError
    \/ StreamExit
    \/ StreamNewline

Spec == Init /\ [][Next]_vars

----------------------------------------------------------------------------
(* provider_data_header on its own, for every credential of the alphabet. *)

\* characters a credential may hold: plain ones, and each kind json.dumps
\* escapes
CredentialChars == {"k", "\"", "\\", "\n", "U+00E9"}

Credentials == UNION {[1..n -> CredentialChars] : n \in 0..MaxCredLen}

HeaderInit ==
    /\ pc = "provider_data_header"
    /\ credential \in Credentials
    /\ built = <<>>
    /\ environ = {}
    /\ api_key = PyNone
    /\ stdout = <<>>
    /\ stderr = ""
    /\ exception = "none"
    /\ exit_code = -1
    /\ requests = <<>>
    /\ chat_response = NoResponse
    /\ data = PyNone
    /\ stream_response = NoStream
    /\ connection = "none"
    /\ lines_read = 0

\* one call of provider_data_header(credential)
CallProviderDataHeader ==
    /\ pc = "provider_data_header"
    /\ Len(built) < 2
    /\ built' = Append(built, provider_data_header(credential))
    /\ UNCHANGED <<pc, environ, api_key, stdout, stderr, exception, exit_code,
                   requests, chat_response, data, stream_response, connection,
                   lines_read, credential>>

HeaderNext == CallProviderDataHeader

HeaderSpec == HeaderInit /\ [][HeaderNext]_vars

----------------------------------------------------------------------------
(* The streamed body as the properties read it: data frames, the sentinel, *)
(* and the fragment a well-formed frame carries.                           *)

\* the line begins with the six characters of the data-frame marker
HasMarker(line) == Len(line) >= 6 /\ SubSeq(line, 1, 6) = DataPrefix

\* what follows the marker
FramePayload(line) == SubSeq(line, 7, Len(line))

\* the payload is the sentinel, with nothing but whitespace around it
IsSentinelFrame(line) ==
    /\ HasMarker(line)
    /\ LET p == FramePayload(line)
       IN  \E i \in 1..Len(p) : \E j \in i..Len(p) :
              /\ SubSeq(p, i, j) = Sentinel
              /\ \A k \in 1..(i - 1) : p[k] \in PyWhitespace
              /\ \A k \in (j + 1)..Len(p) : p[k] \in PyWhitespace

\* a JSON object with a non-empty choices array whose first element is an
\* object with a delta object
HasShape(v) ==
    /\ v.t = "dict"
    /\ DictHas(v, KeyChoices)
    /\ DictGet(v, KeyChoices).t = "list"
    /\ DictGet(v, KeyChoices).items # <<>>
    /\ DictGet(v, KeyChoices).items[1].t = "dict"
    /\ DictHas(DictGet(v, KeyChoices).items[1], KeyDelta)
    /\ DictGet(DictGet(v, KeyChoices).items[1], KeyDelta).t = "dict"

\* the delta object of a frame of that shape
FrameDelta(line) ==
    DictGet(DictGet(json_loads(FramePayload(line)).v, KeyChoices).items[1], KeyDelta)

\* a data frame of the expected shape: its content, when present, is a
\* string or null
IsChunkFrame(line) ==
    /\ HasMarker(line)
    /\ ~IsSentinelFrame(line)
    /\ json_loads(FramePayload(line)).ok
    /\ HasShape(json_loads(FramePayload(line)).v)
    /\ DictHas(FrameDelta(line), KeyContent) =>
            DictGet(FrameDelta(line), KeyContent).t \in {"str", "NoneType"}

\* the content fragment of a line: the content string of a chunk frame, and
\* nothing for any other line
Fragment(line) ==
    IF /\ IsChunkFrame(line)
       /\ DictHas(FrameDelta(line), KeyContent)
       /\ DictGet(FrameDelta(line), KeyContent).t = "str"
    THEN DictGet(FrameDelta(line), KeyContent).s
    ELSE <<>>

\* the same facts about each line of the model, tabulated
MarkedLines == {line \in Lines : HasMarker(line)}
SentinelFrames == {line \in Lines : IsSentinelFrame(line)}
ChunkFrames == {line \in Lines : IsChunkFrame(line)}
FragmentOf == [line \in Lines |-> Fragment(line)]

RECURSIVE Fragments(_)
\* the fragments of a sequence of lines, concatenated in order
Fragments(ls) ==
    IF ls = <<>> THEN <<>> ELSE FragmentOf[Head(ls)] \o Fragments(Tail(ls))

\* the index of the first sentinel frame, or one past the last line
FirstSentinel(ls) ==
    IF \E k \in 1..Len(ls) : ls[k] \in SentinelFrames
    THEN CHOOSE k \in 1..Len(ls) :
            /\ ls[k] \in SentinelFrames
            /\ \A j \in 1..(k - 1) : ~ls[j] \in SentinelFrames
    ELSE Len(ls) + 1

\* the lines before the first sentinel
BeforeSentinel(ls) == SubSeq(ls, 1, FirstSentinel(ls) - 1)

\* chat_streaming has opened its response
Streaming == connection # "none"

\* standard output when chat_streaming is called: what chat printed
ChatOutput == RegularBanner \o ToText(MessageContent(data).v) \o Newline

\* standard output once chat_streaming has printed its banner
StreamStart == ChatOutput \o StreamingBanner

----------------------------------------------------------------------------
(* C1: on a 2xx streamed response whose data frames are well-formed, the   *)
(* text chat_streaming writes after its banner is, at every point of the   *)
(* loop, the fragments of the lines read so far in arrival order, and at   *)
(* the end the fragments of the lines before the first sentinel (all lines *)
(* when there is none) followed by one newline; the call then ends without *)
(* an exception, whether the loop ended by the sentinel or by exhaustion.  *)
(* Only a failure of the transport while a line is awaited ends it         *)
(* otherwise.                                                              *)
C1_StreamedText ==
    LET ls == stream_response.lines
        body == BeforeSentinel(ls)
    IN  ( /\ Streaming
          /\ IsSuccess(stream_response.status)
          /\ \A k \in 1..Len(body) :
                body[k] \in MarkedLines => body[k] \in ChunkFrames )
        =>
        /\ pc = "stream_iter" =>
              /\ lines_read <= Len(body)
              /\ stdout = StreamStart \o Fragments(SubSeq(ls, 1, lines_read))
        /\ pc \in {"stream_exit", "stream_newline"} =>
              stdout = StreamStart \o Fragments(body)
        /\ pc = "exited" => exception \in {"none", "ReadError"}
        /\ (pc = "exited" /\ exception = "none") =>
              /\ exit_code = 0
              /\ stdout = StreamStart \o Fragments(body) \o Newline

\* two fragments arrived in order, then the sentinel, and the call returned
C1_Witness ==
    /\ pc = "exited"
    /\ exit_code = 0
    /\ stream_response.lines = <<LineB, LineA, LineDone>>
    /\ stdout = StreamStart \o <<"B", "A", "\n">>

----------------------------------------------------------------------------
(* The sentinel. *)

SentinelRead ==
    /\ Streaming
    /\ lines_read >= 1
    /\ stream_response.lines[lines_read] \in SentinelFrames

C2_LoopLeft ==
    \A k \in 1..lines_read :
        stream_response.lines[k] \in SentinelFrames =>
            /\ lines_read = k
            /\ pc \in {"stream_exit", "stream_newline", "exited"}
            /\ exception = "none"

(* C2: once a data frame whose trimmed payload is the sentinel has been    *)
(* read, no later line is read and nothing but the closing newline is      *)
(* written: the loop has been left without an exception, whatever follows  *)
(* the sentinel in the stream.                                             *)
C2_StopsAtSentinel ==
    /\ []C2_LoopLeft
    /\ [][SentinelRead =>
            /\ lines_read' = lines_read
            /\ stdout' \in {stdout, stdout \o Newline}]_vars

\* the sentinel was read second and a fragment frame after it never was
C2_Witness ==
    /\ pc = "exited"
    /\ stream_response.lines = <<LineA, LineDonePadded, LineB>>
    /\ lines_read = 2
    /\ stdout = StreamStart \o <<"A", "\n">>

----------------------------------------------------------------------------
(* Lines without the marker. *)

\* what the loop does with one data frame
FrameEffect ==
    [line \in MarkedLines |->
        IF IsDone(Payload(line)) THEN [kind |-> "break"]
        ELSE LET content == ChunkContent(Payload(line))
             IN  IF content.ok
                 THEN [kind |-> "print", text |-> PrintContent(<<>>, content.v)]
                 ELSE [kind |-> "raise", exc |-> content.exc]]

RECURSIVE RunFrames(_, _, _)
\* the loop over a stream of data frames alone, from the i-th on: the text
\* written, how the loop ends, and how many frames were read
RunFrames(frames, i, out) ==
    IF i > Len(frames)
    THEN [out |-> out, end |-> "exhausted", used |-> Len(frames)]
    ELSE LET e == FrameEffect[frames[i]]
         IN  CASE e.kind = "break" -> [out |-> out, end |-> "none", used |-> i]
               [] e.kind = "raise" -> [out |-> out, end |-> e.exc, used |-> i]
               [] e.kind = "print" -> RunFrames(frames, i + 1, out \o e.text)

IsMarked(line) == line \in MarkedLines

C3_SameAsFramesAlone ==
    LET ls == stream_response.lines
        seen == SelectSeq(SubSeq(ls, 1, lines_read), IsMarked)
        part == RunFrames(seen, 1, <<>>)
        whole == RunFrames(SelectSeq(ls, IsMarked), 1, <<>>)
    IN  (Streaming /\ IsSuccess(stream_response.status)) =>
        /\ pc = "stream_iter" =>
              /\ part.end = "exhausted"
              /\ stdout = StreamStart \o part.out
        /\ (pc = "exited" /\ exception = "none") =>
              /\ whole.end \in {"exhausted", "none"}
              /\ whole.used = Len(seen)
              /\ stdout = StreamStart \o whole.out \o Newline
        /\ (pc = "exited" /\ exception \notin {"none", "ReadError"}) =>
              /\ whole.end = exception
              /\ whole.used = Len(seen)
              /\ stdout = StreamStart \o whole.out

(* C3: a line without the six-character marker is skipped with no state    *)
(* change: reading it changes nothing but the count of lines read and      *)
(* raises nothing, and the output, the way the loop ends and the data      *)
(* frame it ends at are those of the same stream with every such line      *)
(* removed.                                                                *)
C3_SkippedUnchanged ==
    /\ []C3_SameAsFramesAlone
    /\ [][( /\ pc = "stream_iter"
            /\ lines_read' = lines_read + 1
            /\ stream_response.lines[lines_read'] \notin MarkedLines )
          => UNCHANGED <<pc, environ, api_key, stdout, stderr, exception,
                         exit_code, requests, chat_response, data,
                         stream_response, connection, credential, built>>]_vars

\* a bare sentinel and a blank line were read around a fragment, and the
\* call returned having printed the fragment
C3_Witness ==
    /\ pc = "exited"
    /\ exit_code = 0
    /\ stream_response.lines = <<LineBareSentinel, LineA, LineBlank>>
    /\ lines_read = 3
    /\ stdout = StreamStart \o <<"A", "\n">>

----------------------------------------------------------------------------
(* Frames without content. *)

NoContentFrames ==
    {line \in Lines :
        IsChunkFrame(line) /\ ~DictHas(FrameDelta(line), KeyContent)}

\* s ends with t
EndsWith(s, t) ==
    Len(t) <= Len(s) /\ SubSeq(s, Len(s) - Len(t) + 1, Len(s)) = t

C4_NextFragmentWritten ==
    ( /\ pc = "stream_iter"
      /\ lines_read >= 2
      /\ stream_response.lines[lines_read - 1] \in NoContentFrames
      /\ FragmentOf[stream_response.lines[lines_read]] # <<>> )
    => EndsWith(stdout, FragmentOf[stream_response.lines[lines_read]])

(* C4: reading a data frame whose delta object has no content field writes *)
(* nothing and raises nothing, and the loop goes on: a fragment in the     *)
(* frame after it is written.                                              *)
C4_NoContentIgnored ==
    /\ []C4_NextFragmentWritten
    /\ [][( /\ pc = "stream_iter"
            /\ lines_read' = lines_read + 1
            /\ stream_response.lines[lines_read'] \in NoContentFrames )
          => /\ stdout' = stdout
             /\ pc' = "stream_iter"
             /\ exception' = "none"
             /\ connection' = "open"]_vars

\* a role announcement came first, the fragment after it was printed
C4_Witness ==
    /\ pc = "exited"
    /\ exit_code = 0
    /\ stream_response.lines = <<LineRole, LineA>>
    /\ stdout = StreamStart \o <<"A", "\n">>

----------------------------------------------------------------------------
(* Responses with a non-success status. *)

\* a status has arrived and it is not 2xx
NonSuccess(status) == status # 0 /\ (status < 200 \/ status > 299)

\* C5 as claimed: either call fails with HTTPStatusError having written
\* nothing to standard output, the streaming call before any line is read.
C5_NothingWritten ==
    /\ (pc = "exited" /\ NonSuccess(chat_response.status)) =>
          /\ exception = "HTTPStatusError"
          /\ exit_code = 1
          /\ stdout = <<>>
    /\ NonSuccess(stream_response.status) =>
          /\ lines_read = 0
          /\ pc \in {"stream_raise_for_status", "exited"}
    /\ (pc = "exited" /\ NonSuccess(stream_response.status)) =>
          /\ exception = "HTTPStatusError"
          /\ exit_code = 1
          /\ stdout = ChatOutput

\* C5, amended: either call fails with HTTPStatusError; chat has written
\* nothing; chat_streaming has written its banner, which it prints before
\* it sends the request, and nothing else: no line is read, no fragment
\* and no closing newline is written.
C5_OnlyTheBanner ==
    /\ (pc = "exited" /\ NonSuccess(chat_response.status)) =>
          /\ exception = "HTTPStatusError"
          /\ exit_code = 1
          /\ stdout = <<>>
    /\ NonSuccess(stream_response.status) =>
          /\ lines_read = 0
          /\ pc \in {"stream_raise_for_status", "exited"}
    /\ (pc = "exited" /\ NonSuccess(stream_response.status)) =>
          /\ exception = "HTTPStatusError"
          /\ exit_code = 1
          /\ stdout = ChatOutput \o StreamingBanner

\* a 401 arrived with a body of data frames, and the call failed
C5_Witness ==
    /\ pc = "exited"
    /\ stream_response.status = 401
    /\ stream_response.lines = <<LineA, LineDone>>
    /\ exception = "HTTPStatusError"

----------------------------------------------------------------------------
(* The missing credential. *)

NoKey ==
    \A e \in environ : e.name = "OPENAI_API_KEY" => e.value = <<>>

(* C6: when OPENAI_API_KEY is unset (and likewise when it is set to the    *)
(* empty string) main exits at its check with the diagnostic and status 1: *)
(* no request is ever sent, no response opened, nothing printed.           *)
C6_NoKeyNoRequest ==
    NoKey =>
        /\ requests = <<>>
        /\ connection = "none"
        /\ stdout = <<>>
        /\ pc \in {"main", "main_check", "exited"}
        /\ pc = "exited" =>
              /\ exit_code = 1
              /\ exception = "SystemExit"
              /\ stderr = "Set OPENAI_API_KEY environment variable"

\* the variable was unset and main has exited
C6_Witness ==
    /\ environ = {}
    /\ pc = "exited"
    /\ exit_code = 1
    /\ requests = <<>>

----------------------------------------------------------------------------
(* C7: the streamed response is open only inside the with block, and once  *)
(* chat_streaming has left the block, by the sentinel, the end of the      *)
(* stream, a non-success status or an exception raised on a frame or by    *)
(* the transport, it is closed.                                            *)
C7_ResponseReleased ==
    /\ connection = "open" =>
          pc \in {"stream_raise_for_status", "stream_iter", "stream_exit"}
    /\ (Streaming /\ pc \in {"stream_newline", "exited"}) =>
          connection = "closed"

\* a frame failed to decode and the response was closed on the way out
C7_Witness ==
    /\ pc = "exited"
    /\ exception = "JSONDecodeError"
    /\ lines_read >= 1
    /\ connection = "closed"

----------------------------------------------------------------------------
(* The header. *)

HeaderCarries(h, c) ==
    /\ DOMAIN h = {ProviderDataHeader}
    /\ LET r == json_loads(h[ProviderDataHeader])
       IN  /\ r.ok
           /\ r.v.t = "dict"
           /\ Len(r.v.keys) = 2
           /\ {r.v.keys[i] : i \in 1..2} = {KeyPassthroughApiKey, KeyPassthroughUrl}
           /\ DictGet(r.v, KeyPassthroughApiKey) = PyStr(c)
           /\ DictGet(r.v, KeyPassthroughUrl) = PyStr(PassthroughUrl)

(* C8: for every credential c, the empty one included, the mapping         *)
(* provider_data_header(c) returns has the one custom header; its value    *)
(* decodes as a JSON object with exactly two fields, the credential field  *)
(* equal to c and the fixed target URL; and a second call with the same c  *)
(* returns the same mapping.                                               *)
C8_HeaderCarriesCredential ==
    /\ \A i \in 1..Len(built) : HeaderCarries(built[i], credential)
    /\ Len(built) = 2 => built[1] = built[2]

\* a credential of a quote, a backslash and a non-ASCII character went
\* through two calls
C8_Witness ==
    /\ credential = <<"\"", "\\", "U+00E9">>
    /\ Len(built) = 2

----------------------------------------------------------------------------
(* The order of the requests. *)

\* chat's request got a non-success status, or no answer in time
ChatFailed ==
    \/ NonSuccess(chat_response.status)
    \/ /\ pc = "exited"
       /\ Len(requests) >= 1
       /\ chat_response = NoResponse

(* C9: the requests are sent in the order chat, chat_streaming, each at    *)
(* most once; the streaming request is sent only after chat has returned;  *)
(* and when chat fails on the status or the timeout the run ends with that *)
(* exception and exit status 1 with the one request sent.                  *)
C9_OrderNoRetry ==
    /\ Len(requests) <= 2
    /\ Len(requests) >= 1 =>
          /\ requests[1].call = "chat"
          /\ ~requests[1].stream
    /\ Len(requests) = 2 =>
          /\ requests[2].call = "chat_streaming"
          /\ requests[2].stream
          /\ chat_response.status \in 200..299
          /\ MessageContent(data).ok
          /\ SubSeq(stdout, 1, Len(StreamStart)) = StreamStart
    /\ ChatFailed =>
          /\ Len(requests) = 1
          /\ connection = "none"
          /\ pc \in {"chat_raise_for_status", "exited"}
          /\ pc = "exited" =>
                /\ exception \in {"HTTPStatusError", "TimeoutException"}
                /\ exit_code = 1

\* chat got a 503 and the run ended with the one request sent
C9_Witness ==
    /\ pc = "exited"
    /\ chat_response.status = 503
    /\ Len(requests) = 1
    /\ exit_code = 1

----------------------------------------------------------------------------
(* Frames that do not decode. *)

BadFrames ==
    {line \in MarkedLines :
        /\ ~IsSentinelFrame(line)
        /\ \/ ~json_loads(FramePayload(line)).ok
           \/ ~HasShape(json_loads(FramePayload(line)).v)}

DecodeErrors ==
    {"JSONDecodeError", "KeyError", "IndexError", "TypeError", "AttributeError"}

C10_BadFrameIsLast ==
    \A k \in 1..lines_read :
        stream_response.lines[k] \in BadFrames =>
            /\ k = lines_read
            /\ pc = "exited"
            /\ exception \in DecodeErrors
            /\ exit_code = 1

(* C10: a data frame that is neither the sentinel nor a JSON object with   *)
(* choices[0].delta (malformed JSON, no choices, an empty choices array,   *)
(* no delta, a delta that is no object) ends the call with the exception   *)
(* raised on it: it is the last line read, what earlier frames printed     *)
(* stays, and nothing more is written, the closing newline included.       *)
C10_FailFast ==
    /\ []C10_BadFrameIsLast
    /\ [][( /\ pc = "stream_iter"
            /\ lines_read' = lines_read + 1
            /\ stream_response.lines[lines_read'] \in BadFrames )
          => stdout' = stdout]_vars
    /\ [][pc # "exited"]_vars

\* a fragment was printed, the next frame was malformed, the frame after it
\* was never read and no newline followed the fragment
C10_Witness ==
    /\ pc = "exited"
    /\ stream_response.lines = <<LineA, LineMalformed, LineB>>
    /\ lines_read = 2
    /\ exception = "JSONDecodeError"
    /\ stdout = StreamStart \o <<"A">>

====
